---- MODULE Spec2Model ----
\* Verification model of the test-suite minimizer: the dominance-based
\* preprocessing (PreprocessingModes, modes A, B and C), the coverage queries of
\* TestSuiteMinimizer, the HillClimbingOptimizer and the TestSuiteMinimizer.run
\* pipeline.
\*
\* A matrix is a record [nr, nc, m]: nr rows, nc columns and the entries
\* m[i][j] \in {0,1} with 0-based indices, as in the numpy arrays of the code.
\* Python lists of indices are sequences of 0-based indices.
EXTENDS Integers, Sequences, FiniteSets, TLC

\* ------------------------------------------------------------------ bounds
\* Input matrices have between 1 and MaxDim rows and columns and at most
\* MaxCells entries.
MaxDim == 4
MaxCells == 9
\* A session of the preprocessing API makes at most MaxCalls calls.
MaxCalls == 3
\* The largest max_iterations handed to optimize.
MaxIterations == 6

\* ------------------------------------------------------------------ helpers
\* list(range(n))
Range(n) == [k \in 1..n |-> k - 1]

SeqToSet(s) == {s[k] : k \in 1..Len(s)}

InSeq(x, s) == \E k \in 1..Len(s) : s[k] = x

\* [x for x in s if x not in removed]
SeqWithout(s, removed) == SelectSeq(s, LAMBDA x : x \notin removed)

\* s[:1]
FirstOnly(s) == IF Len(s) = 0 THEN <<>> ELSE <<s[1]>>

\* matrix.shape
Shape(M) == <<M.nr, M.nc>>

MatricesOf(r, c) ==
    {[nr |-> r, nc |-> c, m |-> f] : f \in [0..(r - 1) -> [0..(c - 1) -> {0, 1}]]}

AllMatrices ==
    UNION {MatricesOf(r, c) : <<r, c>> \in {d \in (1..MaxDim) \X (1..MaxDim) : d[1] * d[2] <= MaxCells}}

\* matrix[rows, :]
TakeRows(M, rows) ==
    [nr |-> Len(rows), nc |-> M.nc,
     m |-> [k \in 0..(Len(rows) - 1) |-> M.m[rows[k + 1]]]]

\* matrix[:, cols]
TakeCols(M, cols) ==
    [nr |-> M.nr, nc |-> Len(cols),
     m |-> [i \in 0..(M.nr - 1) |-> [k \in 0..(Len(cols) - 1) |-> M.m[i][cols[k + 1]]]]]

\* matrix.T
Transpose(M) ==
    [nr |-> M.nc, nc |-> M.nr,
     m |-> [j \in 0..(M.nc - 1) |-> [i \in 0..(M.nr - 1) |-> M.m[i][j]]]]

\* np.sum(matrix[i, :])
RowSum(M, i) == Cardinality({j \in 0..(M.nc - 1) : M.m[i][j] = 1})

\* np.sum(matrix[:, j])
ColSum(M, j) == Cardinality({i \in 0..(M.nr - 1) : M.m[i][j] = 1})

\* set(np.where(matrix[i, :] == 1)[0])
RowOnes(M, i) == {j \in 0..(M.nc - 1) : M.m[i][j] = 1}

\* set(np.where(matrix[:, j] == 1)[0])
ColOnes(M, j) == {i \in 0..(M.nr - 1) : M.m[i][j] = 1}

\* ------------------------------------------------- preprocessing, mode A
\* PreprocessingModes reads its argument as tests x requirements: row = test,
\* column = requirement.

\* np.array_equal(coverage_i, coverage_j)
ArrayEqual(M, test_i, test_j) == M.m[test_i] = M.m[test_j]

\* i_covers_j and i_covers_more
DominatesTestMutReversed(M, test_i, test_j) ==
    /\ \A c \in 0..(M.nc - 1) : M.m[test_i][c] <= M.m[test_j][c]
    /\ ~ArrayEqual(M, test_i, test_j)

DominatesTest(M, test_i, test_j) ==
    /\ \A c \in 0..(M.nc - 1) : M.m[test_j][c] <= M.m[test_i][c]
    /\ ~ArrayEqual(M, test_i, test_j)

\* empty_tests: the rows without a 1, in index order
EmptyTests(M) == SelectSeq(Range(M.nr), LAMBDA t : RowSum(M, t) = 0)

NonEmptyTests(M) == SeqWithout(Range(M.nr), SeqToSet(EmptyTests(M)))

\* ModeAInner where a later test that dominates test i removes test i as well
RECURSIVE ModeAInnerMutBidirectional(_, _, _, _, _)
ModeAInnerMutBidirectional(M, ne, i, j, st) ==
    IF j > Len(ne) THEN st
    ELSE IF ne[j] \in st.to_remove THEN ModeAInnerMutBidirectional(M, ne, i, j + 1, st)
    ELSE IF ArrayEqual(M, ne[i], ne[j])
         THEN ModeAInnerMutBidirectional(M, ne, i, j + 1,
                  [st EXCEPT !.duplicate = Append(@, ne[j]),
                             !.to_remove = @ \cup {ne[j]}])
    ELSE IF DominatesTest(M, ne[i], ne[j])
         THEN ModeAInnerMutBidirectional(M, ne, i, j + 1,
                  [st EXCEPT !.dominated = Append(@, ne[j]),
                             !.to_remove = @ \cup {ne[j]}])
    ELSE IF DominatesTest(M, ne[j], ne[i]) /\ ne[i] \notin st.to_remove
         THEN ModeAInnerMutBidirectional(M, ne, i, j + 1,
                  [st EXCEPT !.dominated = Append(@, ne[i]),
                             !.to_remove = @ \cup {ne[i]}])
    ELSE ModeAInnerMutBidirectional(M, ne, i, j + 1, st)

\* The inner loop over j of the duplicate/dominated scan; st holds
\* duplicate_tests, dominated_tests and to_remove.
RECURSIVE ModeAInner(_, _, _, _, _)
ModeAInner(M, ne, i, j, st) ==
    IF j > Len(ne) THEN st
    ELSE IF ne[j] \in st.to_remove THEN ModeAInner(M, ne, i, j + 1, st)
    ELSE IF ArrayEqual(M, ne[i], ne[j])
         THEN ModeAInner(M, ne, i, j + 1,
                  [st EXCEPT !.duplicate = Append(@, ne[j]),
                             !.to_remove = @ \cup {ne[j]}])
    ELSE IF DominatesTest(M, ne[i], ne[j])
         THEN ModeAInner(M, ne, i, j + 1,
                  [st EXCEPT !.dominated = Append(@, ne[j]),
                             !.to_remove = @ \cup {ne[j]}])
    ELSE ModeAInner(M, ne, i, j + 1, st)

\* The outer loop over i: a test already marked is skipped as a source.
RECURSIVE ModeAOuter(_, _, _, _)
ModeAOuter(M, ne, i, st) ==
    IF i > Len(ne) THEN st
    ELSE IF ne[i] \in st.to_remove THEN ModeAOuter(M, ne, i + 1, st)
    ELSE ModeAOuter(M, ne, i + 1, ModeAInner(M, ne, i, i + 1, st))

ModeAScan(M) ==
    ModeAOuter(M, NonEmptyTests(M), 1,
               [duplicate |-> <<>>, dominated |-> <<>>, to_remove |-> {}])

\* tests_to_keep, with the keep-one fallback
TestsToKeep(M) ==
    LET kept == SeqWithout(NonEmptyTests(M), ModeAScan(M).to_remove)
    IN IF Len(kept) = 0
       THEN (IF Len(NonEmptyTests(M)) > 0 THEN FirstOnly(NonEmptyTests(M)) ELSE <<0>>)
       ELSE kept

\* _apply_mode_a: (reduced_matrix, tests_to_keep, elimination_info)
ApplyModeA(M) ==
    LET scan == ModeAScan(M)
        keep == TestsToKeep(M)
    IN [reduced_matrix |-> TakeRows(M, keep),
        kept_test_indices |-> keep,
        info |-> [empty |-> EmptyTests(M),
                  duplicate |-> scan.duplicate,
                  dominated |-> scan.dominated,
                  total_eliminated |-> Len(EmptyTests(M)) + Len(scan.duplicate) + Len(scan.dominated),
                  original_tests |-> M.nr,
                  remaining_tests |-> Len(keep)]]

\* ------------------------------------------------- preprocessing, mode B
\* tests_covering_j < tests_covering_i (strict subset)
DominatesReq(M, req_i, req_j) ==
    /\ ColOnes(M, req_j) \subseteq ColOnes(M, req_i)
    /\ ColOnes(M, req_j) # ColOnes(M, req_i)

\* uncovered_reqs: the columns without a 1, in index order
UncoveredReqs(M) == SelectSeq(Range(M.nc), LAMBDA r : ColSum(M, r) = 0)

CoveredReqs(M) == SeqWithout(Range(M.nc), SeqToSet(UncoveredReqs(M)))

\* The inner loop over every j # i; st holds dominated_reqs and to_remove.
RECURSIVE ModeBInner(_, _, _, _, _)
ModeBInner(M, cr, i, j, st) ==
    IF j > Len(cr) THEN st
    ELSE IF j = i THEN ModeBInner(M, cr, i, j + 1, st)
    ELSE IF cr[j] \in st.to_remove THEN ModeBInner(M, cr, i, j + 1, st)
    ELSE IF DominatesReq(M, cr[i], cr[j])
         THEN ModeBInner(M, cr, i, j + 1,
                  [st EXCEPT !.dominated = Append(@, cr[j]),
                             !.to_remove = @ \cup {cr[j]}])
    ELSE ModeBInner(M, cr, i, j + 1, st)

\* ModeBOuter with the inner scan starting after i, as mode A scans
RECURSIVE ModeBOuterMutForwardOnly(_, _, _, _)
ModeBOuterMutForwardOnly(M, cr, i, st) ==
    IF i > Len(cr) THEN st
    ELSE IF cr[i] \in st.to_remove THEN ModeBOuterMutForwardOnly(M, cr, i + 1, st)
    ELSE ModeBOuterMutForwardOnly(M, cr, i + 1, ModeBInner(M, cr, i, i + 1, st))

\* The outer loop over i: a requirement already marked is skipped as a source.
RECURSIVE ModeBOuter(_, _, _, _)
ModeBOuter(M, cr, i, st) ==
    IF i > Len(cr) THEN st
    ELSE IF cr[i] \in st.to_remove THEN ModeBOuter(M, cr, i + 1, st)
    ELSE ModeBOuter(M, cr, i + 1, ModeBInner(M, cr, i, 1, st))

ModeBScan(M) ==
    ModeBOuter(M, CoveredReqs(M), 1, [dominated |-> <<>>, to_remove |-> {}])

\* requirements_to_keep, with the keep-one fallback
RequirementsToKeep(M) ==
    LET kept == SeqWithout(CoveredReqs(M), ModeBScan(M).to_remove)
    IN IF Len(kept) = 0
       THEN (IF Len(CoveredReqs(M)) > 0 THEN FirstOnly(CoveredReqs(M)) ELSE <<0>>)
       ELSE kept

\* _apply_mode_b: (reduced_matrix, requirements_to_keep, elimination_info)
ApplyModeB(M) ==
    LET scan == ModeBScan(M)
        keep == RequirementsToKeep(M)
    IN [reduced_matrix |-> TakeCols(M, keep),
        kept_req_indices |-> keep,
        info |-> [uncovered |-> UncoveredReqs(M),
                  dominated |-> scan.dominated,
                  total_eliminated |-> Len(UncoveredReqs(M)) + Len(scan.dominated),
                  original_requirements |-> M.nc,
                  remaining_requirements |-> Len(keep)]]


\* ------------------------------------------------- TestSuiteMinimizer
\* TestSuiteMinimizer and HillClimbingOptimizer read coverage_matrix as
\* requirements x tests: row = requirement, column = test.

\* Insert x into the ascending sequence s
RECURSIVE SortedInsert(_, _)
SortedInsert(s, x) ==
    IF s = <<>> THEN <<x>>
    ELSE IF x < Head(s) THEN <<x>> \o s
    ELSE <<Head(s)>> \o SortedInsert(Tail(s), x)

\* sorted(s)
RECURSIVE Sorted(_)
Sorted(s) == IF s = <<>> THEN <<>> ELSE SortedInsert(Sorted(Tail(s)), Head(s))

\* sorted(list(S)) of a set of integers
RECURSIVE SortedOfSet(_)
SortedOfSet(S) ==
    IF S = {} THEN <<>>
    ELSE LET x == CHOOSE y \in S : \A z \in S : y <= z
         IN <<x>> \o SortedOfSet(S \ {x})

\* coverage_matrix[:, test_subset] raises IndexError for an index that is no
\* column of the matrix
IndexInRange(M, test_subset) == \A t \in SeqToSet(test_subset) : t >= 0 /\ t < M.nc

\* np.sum(coverage_matrix[:, test_subset], axis=1) > 0, as the set of rows
CoveredRequirements(M, test_subset) ==
    {r \in 0..(M.nr - 1) : \E t \in SeqToSet(test_subset) : M.m[r][t] = 1}

\* np.sum(coverage_matrix, axis=1) > 0, as the set of rows
OriginalCovered(M) == {r \in 0..(M.nr - 1) : RowSum(M, r) > 0}

\* check_solution_coverage asking for every requirement of the matrix, covered
\* by some test or not
CheckSolutionCoverageMutEveryRequirement(M, test_subset) ==
    IF test_subset = <<>> THEN FALSE
    ELSE (0..(M.nr - 1)) \subseteq CoveredRequirements(M, test_subset)

\* TestSuiteMinimizer.check_solution_coverage
CheckSolutionCoverage(M, test_subset) ==
    IF test_subset = <<>> THEN FALSE
    ELSE OriginalCovered(M) \subseteq CoveredRequirements(M, test_subset)

\* A percentage is the exact fraction num / den
PctEq(a, b) == a.num * b.den = b.num * a.den

Pct(n) == [num |-> n, den |-> 1]

\* calculate_coverage_percentage over all the requirements of the matrix, as
\* utils.calculate_coverage_percentage divides
CalculateCoveragePercentageMutAllRequirements(M, test_subset) ==
    IF test_subset = <<>> THEN Pct(0)
    ELSE [num |-> Cardinality(CoveredRequirements(M, test_subset)) * 100, den |-> M.nr]

\* TestSuiteMinimizer.calculate_coverage_percentage
CalculateCoveragePercentage(M, test_subset) ==
    IF test_subset = <<>> THEN Pct(0)
    ELSE IF Cardinality(OriginalCovered(M)) = 0 THEN Pct(100)
    ELSE [num |-> Cardinality(CoveredRequirements(M, test_subset)) * 100,
          den |-> Cardinality(OriginalCovered(M))]

\* ------------------------------------------------- utils
\* find_critical_requirements: the rows with exactly one 1
FindCriticalRequirements(M) == {r \in 0..(M.nr - 1) : RowSum(M, r) = 1}

\* get_essential_tests that stops after the first critical requirement
GetEssentialTestsMutFirstOnly(M) ==
    LET critical == FindCriticalRequirements(M)
    IN IF critical = {} THEN {}
       ELSE LET r == CHOOSE x \in critical : \A y \in critical : x <= y
            IN {CHOOSE t \in RowOnes(M, r) : TRUE}

\* get_essential_tests: for each critical requirement the first test covering it
GetEssentialTests(M) ==
    {CHOOSE t \in RowOnes(M, r) : \A u \in RowOnes(M, r) : t <= u :
        r \in FindCriticalRequirements(M)}

\* utils.calculate_coverage_percentage: over all the rows of the matrix
UtilsCalculateCoveragePercentage(M, test_subset) ==
    IF Len(test_subset) = 0 THEN Pct(0)
    ELSE [num |-> Cardinality(CoveredRequirements(M, test_subset)) * 100,
          den |-> M.nr]

\* utils.check_full_coverage: the percentage above == 100.0
UtilsCheckFullCoverage(M, test_subset) ==
    PctEq(UtilsCalculateCoveragePercentage(M, test_subset), Pct(100))

\* A metric is the exact fraction num / den, den > 0
Frac(n, d) == [num |-> n, den |-> d]

\* a <= b on fractions
FracLeq(a, b) == a.num * b.den <= b.num * a.den

\* calculate_tssr: 1 - minimized_size / original_size
CalculateTssr(original_size, minimized_size) ==
    IF original_size = 0 THEN Frac(0, 1)
    ELSE Frac(original_size - minimized_size, original_size)

\* calculate_fdcloss returning the ratio |U(S)| / |U(T)| itself
CalculateFdclossMutRatio(M, original_tests, minimized_tests) ==
    IF Len(original_tests) = 0 THEN Frac(1, 1)
    ELSE LET u_t == Cardinality(CoveredRequirements(M, original_tests))
             u_s == Cardinality(CoveredRequirements(M, minimized_tests))
         IN IF u_t = 0 THEN Frac(0, 1)
            ELSE IF Len(minimized_tests) = 0 THEN Frac(1, 1)
            ELSE Frac(u_s, u_t)

\* calculate_fdcloss: 1 - |U(S)| / |U(T)|
CalculateFdcloss(M, original_tests, minimized_tests) ==
    IF Len(original_tests) = 0 THEN Frac(1, 1)
    ELSE LET u_t == Cardinality(CoveredRequirements(M, original_tests))
             u_s == Cardinality(CoveredRequirements(M, minimized_tests))
         IN IF u_t = 0 THEN Frac(0, 1)
            ELSE IF Len(minimized_tests) = 0 THEN Frac(1, 1)
            ELSE Frac(u_t - u_s, u_t)

\* calculate_metrics
CalculateMetrics(M, original_tests, minimized_tests) ==
    LET tssr == CalculateTssr(Len(original_tests), Len(minimized_tests))
    IN [tssr |-> tssr,
        fdcloss |-> CalculateFdcloss(M, original_tests, minimized_tests),
        original_size |-> Len(original_tests),
        minimized_size |-> Len(minimized_tests),
        reduction_count |-> Len(original_tests) - Len(minimized_tests),
        reduction_percentage |-> Frac(tssr.num * 100, tssr.den)]

\* ------------------------------------------------- HillClimbingOptimizer
\* A fitness is float("inf") or the exact fraction num / den
Inf == [inf |-> TRUE, num |-> 0, den |-> 1]

Fit(n, d) == [inf |-> FALSE, num |-> n, den |-> d]

\* a < b on fitness values
FitLess(a, b) ==
    IF a.inf THEN FALSE
    ELSE IF b.inf THEN TRUE
    ELSE a.num * b.den < b.num * a.den

\* The names generate_initial_solution knows
KnownStrategies == {"all", "greedy", "essential"}

\* The for loop of the greedy strategy with >= for >: the last of the best wins
RECURSIVE GreedyScanMutLastOfTies(_, _, _, _, _, _)
GreedyScanMutLastOfTies(M, nt, solution, uncovered, test_idx, best) ==
    IF test_idx >= nt THEN best
    ELSE IF InSeq(test_idx, solution)
         THEN GreedyScanMutLastOfTies(M, nt, solution, uncovered, test_idx + 1, best)
    ELSE LET new_coverage == Cardinality(ColOnes(M, test_idx) \cap uncovered)
         IN IF new_coverage >= best.best_coverage
            THEN GreedyScanMutLastOfTies(M, nt, solution, uncovered, test_idx + 1,
                            [best_test |-> test_idx, best_coverage |-> new_coverage])
            ELSE GreedyScanMutLastOfTies(M, nt, solution, uncovered, test_idx + 1, best)

\* The for loop of the greedy strategy over test_idx: best_test and best_coverage
RECURSIVE GreedyScan(_, _, _, _, _, _)
GreedyScan(M, nt, solution, uncovered, test_idx, best) ==
    IF test_idx >= nt THEN best
    ELSE IF InSeq(test_idx, solution)
         THEN GreedyScan(M, nt, solution, uncovered, test_idx + 1, best)
    ELSE LET new_coverage == Cardinality(ColOnes(M, test_idx) \cap uncovered)
         IN IF new_coverage > best.best_coverage
            THEN GreedyScan(M, nt, solution, uncovered, test_idx + 1,
                            [best_test |-> test_idx, best_coverage |-> new_coverage])
            ELSE GreedyScan(M, nt, solution, uncovered, test_idx + 1, best)

\* The while loop of the greedy strategy
RECURSIVE GreedyLoop(_, _, _, _)
GreedyLoop(M, nt, solution, uncovered) ==
    IF uncovered = {} THEN solution
    ELSE LET best == GreedyScan(M, nt, solution, uncovered, 0,
                                [best_test |-> -1, best_coverage |-> 0])
         IN IF best.best_test = -1 THEN solution
            ELSE GreedyLoop(M, nt, Append(solution, best.best_test),
                            uncovered \ ColOnes(M, best.best_test))

\* generate_initial_solution for a known strategy
GenerateInitialSolution(M, nreq, nt, strategy) ==
    CASE strategy = "all" -> Range(nt)
      [] strategy = "greedy" -> GreedyLoop(M, nt, <<>>, 0..(nreq - 1))
      [] strategy = "essential" -> SortedOfSet(GetEssentialTests(M))

\* generate_initial_solution reads a column that the matrix does not have
\* (IndexError): the greedy scan visits every test index below num_tests
InitialSolutionIndexError(M, nreq, nt, strategy) ==
    strategy = "greedy" /\ nreq > 0 /\ nt > M.nc

\* The neighbours by removal with the last position never tried
RemovalNeighborsMutSkipLast(current) ==
    LET tried == IF current = <<>> THEN <<>>
                 ELSE SubSeq(current, 1, Len(current) - 1)
        all == [k \in 1..Len(tried) |->
                    SelectSeq(current, LAMBDA t : t # tried[k])]
    IN SelectSeq(all, LAMBDA n : n # <<>>)

\* The neighbours by removal: one per position, the empty list left out
RemovalNeighbors(current) ==
    LET all == [k \in 1..Len(current) |->
                    SelectSeq(current, LAMBDA t : t # current[k])]
    IN SelectSeq(all, LAMBDA n : n # <<>>)

\* The neighbours by addition with the new test appended, not sorted in
AdditionNeighborsMutUnsorted(current, nt) ==
    LET missing == SelectSeq(Range(nt), LAMBDA t : ~InSeq(t, current))
    IN [k \in 1..Len(missing) |-> Append(current, missing[k])]

\* The neighbours by addition: one per test index that is not in the solution
AdditionNeighbors(current, nt) ==
    LET missing == SelectSeq(Range(nt), LAMBDA t : ~InSeq(t, current))
    IN [k \in 1..Len(missing) |-> Sorted(Append(current, missing[k]))]

\* generate_neighbors
GenerateNeighbors(current, nt) == RemovalNeighbors(current) \o AdditionNeighbors(current, nt)

\* evaluate_solution: (fitness, is_valid)
EvaluateSolution(M, solution) ==
    IF solution = <<>> THEN [fitness |-> Inf, is_valid |-> FALSE]
    ELSE IF CheckSolutionCoverage(M, solution)
         THEN [fitness |-> Fit(Len(solution), 1), is_valid |-> TRUE]
    ELSE LET pct == CalculateCoveragePercentage(M, solution)
         IN [fitness |-> Fit(Len(solution) * pct.den + (100 * pct.den - pct.num) * 100,
                             pct.den),
             is_valid |-> FALSE]

\* The test of the neighbour loop with the validity of the neighbour ignored
ConsiderNeighborMutAnyFitness(ev, best_neighbor_fitness) ==
    FitLess(ev.fitness, best_neighbor_fitness)

\* The test of the neighbour loop with <= for <: the last of the best wins
ConsiderNeighborMutLastOfTies(ev, best_neighbor_fitness) ==
    ev.is_valid /\ ~FitLess(best_neighbor_fitness, ev.fitness)

\* "if is_valid and fitness < best_neighbor_fitness"
ConsiderNeighbor(ev, best_neighbor_fitness) ==
    ev.is_valid /\ FitLess(ev.fitness, best_neighbor_fitness)

\* The loop over the neighbours: best_neighbor (found = FALSE for None),
\* best_neighbor_fitness and best_neighbor_valid
RECURSIVE EvaluateNeighbors(_, _, _, _)
EvaluateNeighbors(M, neighbors, k, best) ==
    IF k > Len(neighbors) THEN best
    ELSE LET ev == EvaluateSolution(M, neighbors[k])
         IN IF ConsiderNeighbor(ev, best.fitness)
            THEN EvaluateNeighbors(M, neighbors, k + 1,
                     [found |-> TRUE, neighbor |-> neighbors[k],
                      fitness |-> ev.fitness, valid |-> ev.is_valid])
            ELSE EvaluateNeighbors(M, neighbors, k + 1, best)

BestNeighbor(M, neighbors) ==
    EvaluateNeighbors(M, neighbors, 1,
                      [found |-> FALSE, neighbor |-> <<>>, fitness |-> Inf, valid |-> FALSE])

\* The move test without the comparison with the current fitness
AcceptMoveMutAnyFound(best, cur_fitness) == best.found

\* The move test with the comparison the wrong way round
AcceptMoveMutReversed(best, cur_fitness) == best.found /\ FitLess(cur_fitness, best.fitness)

\* "if best_neighbor is not None and best_neighbor_fitness < current_fitness"
AcceptMove(best, cur_fitness) == best.found /\ FitLess(best.fitness, cur_fitness)

HistoryEntry(it, solution, fitness, valid) ==
    [iteration |-> it, solution_size |-> Len(solution), fitness |-> fitness, valid |-> valid]

\* ------------------------------------------------- preprocessing, mode C
\* max_iterations of _apply_mode_c when the caller passes none
DefaultModeCMaxIterations == 10

\* The kept positions taken as original indices, without the lookup in lst
ListIndexMutNoLookup(lst, kept) == kept

\* [lst[i] for i in kept]
ListIndex(lst, kept) == [k \in 1..Len(kept) |-> lst[kept[k] + 1]]

\* The matrix of the scenario of section 8: 3 tests x 4 requirements, test 0 and
\* test 1 cover {0,1}, test 2 covers {0,1,2,3}.
ScenarioMatrix ==
    [nr |-> 3, nc |-> 4,
     m |-> [t \in 0..2 |-> [r \in 0..3 |-> IF t = 2 \/ r <= 1 THEN 1 ELSE 0]]]

\* None where a string, a number or a matrix may stand
None == "None"

\* None where a dictionary may stand
NoneResult == [is_none |-> TRUE]

\* None where a list may stand, and a list that is given
NoneList == [is_none |-> TRUE, value |-> <<>>]

Given(lst) == [is_none |-> FALSE, value |-> lst]

\* One pass of the loop of _apply_mode_c on matrix cm: the values of the locals
\* after the pass and whether the pass made changes.
ModeCPassOf(cm, oti, ori, it, tte, tre, details) ==
    LET a == ApplyModeA(cm)
        a_changed == a.info.total_eliminated > 0
        cm1 == IF a_changed THEN a.reduced_matrix ELSE cm
        b == ApplyModeB(cm1)
        b_changed == b.info.total_eliminated > 0
        cm2 == IF b_changed THEN b.reduced_matrix ELSE cm1
    IN [current_matrix |-> cm2,
        original_test_indices |->
            IF a_changed THEN ListIndex(oti, a.kept_test_indices) ELSE oti,
        original_req_indices |->
            IF b_changed THEN ListIndex(ori, b.kept_req_indices) ELSE ori,
        iteration |-> it + 1,
        total_tests_eliminated |->
            IF a_changed THEN tte + a.info.total_eliminated ELSE tte,
        total_reqs_eliminated |->
            IF b_changed THEN tre + b.info.total_eliminated ELSE tre,
        iteration_details |->
            Append(details,
                   [iteration |-> it + 1,
                    start_shape |-> Shape(cm),
                    tests_eliminated |-> IF a_changed THEN a.info.total_eliminated ELSE 0,
                    reqs_eliminated |-> IF b_changed THEN b.info.total_eliminated ELSE 0,
                    end_shape |-> Shape(cm2)]),
        changes_made |-> a_changed \/ b_changed]

\* combined_info and the returned tuple (the two reduction percentages, which
\* are computed from original_shape and final_shape, are left out)
ModeCResult(arg, cm, oti, ori, it, tte, tre, details) ==
    [reduced_matrix |-> cm,
     kept_test_indices |-> oti,
     kept_req_indices |-> ori,
     info |-> [iterations |-> it,
               iteration_details |-> details,
               total_tests_eliminated |-> tte,
               total_reqs_eliminated |-> tre,
               original_shape |-> Shape(arg),
               final_shape |-> Shape(cm)]]

\* The while loop of _apply_mode_c from the locals in st on (p is the value of
\* the locals after one pass, computed once)
RECURSIVE ModeCLoop(_, _, _)
ModeCLoop(arg, cap, st) ==
    IF st.iteration >= cap
    THEN ModeCResult(arg, st.current_matrix, st.original_test_indices,
                     st.original_req_indices, st.iteration,
                     st.total_tests_eliminated, st.total_reqs_eliminated,
                     st.iteration_details)
    ELSE CHOOSE r \in
             {IF p.changes_made THEN ModeCLoop(arg, cap, p)
              ELSE ModeCResult(arg, p.current_matrix, p.original_test_indices,
                               p.original_req_indices, p.iteration,
                               p.total_tests_eliminated, p.total_reqs_eliminated,
                               p.iteration_details) :
              p \in {ModeCPassOf(st.current_matrix, st.original_test_indices,
                                 st.original_req_indices, st.iteration,
                                 st.total_tests_eliminated, st.total_reqs_eliminated,
                                 st.iteration_details)}} : TRUE

\* _apply_mode_c(coverage_matrix, max_iterations) as one call
ApplyModeC(M, cap) ==
    ModeCLoop(M, cap,
              [current_matrix |-> M,
               original_test_indices |-> Range(M.nr),
               original_req_indices |-> Range(M.nc),
               iteration |-> 0,
               total_tests_eliminated |-> 0,
               total_reqs_eliminated |-> 0,
               iteration_details |-> <<>>])

\* mode.upper() on the mode names of the model
Upper(mode) ==
    CASE mode = "a" -> "A" [] mode = "b" -> "B" [] mode = "c" -> "C" [] OTHER -> mode

\* apply_preprocessing_to_minimizer on a minimizer with a loaded matrix: the
\* result dictionary, or None for a mode that is not recognised
ApplyPreprocessingToMinimizer(M, mode) ==
    LET head == [mode |-> Upper(mode), original_matrix |-> M, original_shape |-> Shape(M)]
    IN CASE Upper(mode) = "A" ->
                head @@ [kept_req_indices |-> Range(M.nc)] @@ ApplyModeA(M)
         [] Upper(mode) = "B" ->
                head @@ [kept_test_indices |-> Range(M.nr)] @@ ApplyModeB(M)
         [] Upper(mode) = "C" ->
                head @@ ApplyModeC(M, DefaultModeCMaxIterations)
         [] OTHER -> NoneResult

\* ------------------------------------------------------------------ state
VARIABLES
    \* --- a session of calls to PreprocessingModes
    input,                  \* the matrix handed to the first call
    calls,                  \* the results returned so far, in call order
    pre_pc,                 \* "idle", or the position inside _apply_mode_c
    \* --- the locals of _apply_mode_c
    mc_max_iterations,
    current_matrix,
    original_test_indices,
    original_req_indices,
    mc_iteration,
    total_tests_eliminated,
    total_reqs_eliminated,
    iteration_details,
    \* --- TestSuiteMinimizer
    file_matrix,            \* the matrix of the input file, tests x requirements
    coverage_matrix,        \* requirements x tests after load_matrix
    num_requirements,
    num_tests,
    mode,
    apply_preprocessing,
    preprocessing_result,
    run_pc,
    run_result,
    \* --- HillClimbingOptimizer.optimize
    initial_strategy,
    initial_solution,
    max_iterations,
    current_solution,
    current_fitness,
    current_valid,
    best_solution,
    best_fitness,
    iteration,
    improvements,
    evaluations,
    history,
    result,
    opt_pc,
    error,
    \* --- one call of a query method on a loaded minimizer
    query,                  \* the call and the value it returned
    qry_pc

preVars == <<input, calls, pre_pc>>
modeCVars ==
    <<mc_max_iterations, current_matrix, original_test_indices, original_req_indices,
      mc_iteration, total_tests_eliminated, total_reqs_eliminated, iteration_details>>
minVars == <<file_matrix, coverage_matrix, num_requirements, num_tests>>
runVars == <<mode, apply_preprocessing, preprocessing_result, run_pc, run_result>>
optArgs == <<initial_strategy, initial_solution, max_iterations>>
optVars ==
    <<current_solution, current_fitness, current_valid, best_solution, best_fitness,
      iteration, improvements, evaluations, history, result, opt_pc, error>>
qryVars == <<query, qry_pc>>
vars == <<preVars, modeCVars, minVars, runVars, optArgs, optVars, qryVars>>

\* ---------------------------------------------------- values before use
ModeCIdle ==
    /\ mc_max_iterations = None
    /\ current_matrix = None
    /\ original_test_indices = <<>>
    /\ original_req_indices = <<>>
    /\ mc_iteration = 0
    /\ total_tests_eliminated = 0
    /\ total_reqs_eliminated = 0
    /\ iteration_details = <<>>

PreUnused ==
    /\ input = None
    /\ calls = <<>>
    /\ pre_pc = "unused"
    /\ ModeCIdle

RunUnused ==
    /\ mode = None
    /\ apply_preprocessing = FALSE
    /\ preprocessing_result = NoneResult
    /\ run_pc = "unused"
    /\ run_result = NoneResult

\* The locals of optimize before the call
OptFresh ==
    /\ current_solution = <<>>
    /\ current_fitness = None
    /\ current_valid = FALSE
    /\ best_solution = <<>>
    /\ best_fitness = None
    /\ iteration = 0
    /\ improvements = 0
    /\ evaluations = 0
    /\ history = <<>>
    /\ result = NoneResult
    /\ error = None

OptNotStarted ==
    /\ initial_strategy = None
    /\ initial_solution = NoneList
    /\ max_iterations = 0
    /\ OptFresh

MinimizerEmpty ==
    /\ coverage_matrix = None
    /\ num_requirements = 0
    /\ num_tests = 0

\* No query method is called
QryUnused ==
    /\ query = NoneResult
    /\ qry_pc = "unused"

\* ------------------------------------------- the preprocessing session
\* The argument of the next call: the input, or the matrix the last call returned.
NextArg == IF calls = <<>> THEN input ELSE calls[Len(calls)].reduced_matrix

\* PreprocessingModes._apply_mode_a(NextArg)
CallModeA ==
    /\ pre_pc = "idle"
    /\ Len(calls) < MaxCalls
    /\ calls' = Append(calls, [op |-> "A", arg |-> NextArg] @@ ApplyModeA(NextArg))
    /\ UNCHANGED <<input, pre_pc, modeCVars, minVars, runVars, optArgs, qryVars, optVars>>

\* PreprocessingModes._apply_mode_b(NextArg)
CallModeB ==
    /\ pre_pc = "idle"
    /\ Len(calls) < MaxCalls
    /\ calls' = Append(calls, [op |-> "B", arg |-> NextArg] @@ ApplyModeB(NextArg))
    /\ UNCHANGED <<input, pre_pc, modeCVars, minVars, runVars, optArgs, qryVars, optVars>>

\* _apply_mode_c(input, cap): the statements before the loop
ModeCEnter ==
    /\ pre_pc = "idle"
    /\ calls = <<>>
    /\ \E cap \in {1, 2, DefaultModeCMaxIterations} : mc_max_iterations' = cap
    /\ current_matrix' = input
    /\ original_test_indices' = Range(input.nr)
    /\ original_req_indices' = Range(input.nc)
    /\ mc_iteration' = 0
    /\ total_tests_eliminated' = 0
    /\ total_reqs_eliminated' = 0
    /\ iteration_details' = <<>>
    /\ pre_pc' = "modeC_loop"
    /\ UNCHANGED <<input, calls, minVars, runVars, optArgs, qryVars, optVars>>

\* One iteration of "while iteration < max_iterations", its break included
ModeCPass ==
    /\ pre_pc = "modeC_loop"
    /\ mc_iteration < mc_max_iterations
    /\ LET p == ModeCPassOf(current_matrix, original_test_indices, original_req_indices,
                            mc_iteration, total_tests_eliminated, total_reqs_eliminated,
                            iteration_details)
       IN /\ current_matrix' = p.current_matrix
          /\ original_test_indices' = p.original_test_indices
          /\ original_req_indices' = p.original_req_indices
          /\ mc_iteration' = p.iteration
          /\ total_tests_eliminated' = p.total_tests_eliminated
          /\ total_reqs_eliminated' = p.total_reqs_eliminated
          /\ iteration_details' = p.iteration_details
          /\ pre_pc' = IF p.changes_made THEN "modeC_loop" ELSE "modeC_break"
    /\ UNCHANGED <<input, calls, mc_max_iterations, minVars, runVars, optArgs, qryVars, optVars>>

\* The loop of _apply_mode_c has ended: build combined_info and return
ModeCReturn ==
    /\ \/ pre_pc = "modeC_break"
       \/ pre_pc = "modeC_loop" /\ mc_iteration >= mc_max_iterations
    /\ calls' = Append(calls,
                       [op |-> "C", arg |-> input, max_iterations |-> mc_max_iterations]
                           @@ ModeCResult(input, current_matrix,
                                          original_test_indices, original_req_indices,
                                          mc_iteration, total_tests_eliminated,
                                          total_reqs_eliminated, iteration_details))
    /\ pre_pc' = "idle"
    /\ mc_max_iterations' = None
    /\ current_matrix' = None
    /\ original_test_indices' = <<>>
    /\ original_req_indices' = <<>>
    /\ mc_iteration' = 0
    /\ total_tests_eliminated' = 0
    /\ total_reqs_eliminated' = 0
    /\ iteration_details' = <<>>
    /\ UNCHANGED <<input, minVars, runVars, optArgs, qryVars, optVars>>

InitPre ==
    /\ input \in AllMatrices \cup {ScenarioMatrix}
    /\ calls = <<>>
    /\ pre_pc = "idle"
    /\ ModeCIdle
    /\ file_matrix = None
    /\ MinimizerEmpty
    /\ RunUnused
    /\ OptNotStarted
    /\ opt_pc = "unused"
    /\ QryUnused

NextPre == CallModeA \/ CallModeB \/ ModeCEnter \/ ModeCPass \/ ModeCReturn

\* The static methods of PreprocessingModes called in sequence on one matrix
SpecPre == InitPre /\ [][NextPre]_vars


\* ------------------------------------------- HillClimbingOptimizer.optimize
\* The call of the convergence scenario: the all-ones matrix with 2 requirements
\* and 2 tests, and max_iterations = 100
ScenarioAllOnes == [nr |-> 2, nc |-> 2, m |-> [r \in 0..1 |-> [t \in 0..1 |-> 1]]]

ScenarioMaxIterations == 100

\* The strategies and explicit initial solutions handed to optimize
StrategyNames == {"all", "greedy", "essential", "random"}

\* The ascending lists of distinct test indices below n
SortedSubsets(n) == {SortedOfSet(S) : S \in SUBSET (0..(n - 1))}

\* optimize up to the loop: the initial solution, its evaluation and the
\* statistics. An unknown strategy raises ValueError, a test index that is no
\* column of the matrix raises IndexError.
OptStart ==
    /\ opt_pc = "constructed"
    /\ IF initial_solution = NoneList /\ initial_strategy \notin KnownStrategies
       THEN /\ opt_pc' = "error"
            /\ error' = "ValueError"
            /\ UNCHANGED <<current_solution, current_fitness, current_valid,
                           best_solution, best_fitness, iteration, improvements,
                           evaluations, history, result>>
       ELSE IF /\ initial_solution = NoneList
               /\ InitialSolutionIndexError(coverage_matrix, num_requirements,
                                            num_tests, initial_strategy)
       THEN /\ opt_pc' = "error"
            /\ error' = "IndexError"
            /\ UNCHANGED <<current_solution, current_fitness, current_valid,
                           best_solution, best_fitness, iteration, improvements,
                           evaluations, history, result>>
       ELSE LET start == IF initial_solution = NoneList
                         THEN GenerateInitialSolution(coverage_matrix, num_requirements,
                                                      num_tests, initial_strategy)
                         ELSE initial_solution.value
            IN IF ~IndexInRange(coverage_matrix, start)
               THEN /\ opt_pc' = "error"
                    /\ error' = "IndexError"
                    /\ current_solution' = start
                    /\ UNCHANGED <<current_fitness, current_valid, best_solution,
                                   best_fitness, iteration, improvements, evaluations,
                                   history, result>>
               ELSE LET ev == EvaluateSolution(coverage_matrix, start)
                    IN /\ current_solution' = start
                       /\ current_fitness' = ev.fitness
                       /\ current_valid' = ev.is_valid
                       /\ iteration' = 0
                       /\ improvements' = 0
                       /\ evaluations' = 1
                       /\ best_solution' = start
                       /\ best_fitness' = ev.fitness
                       /\ history' = <<HistoryEntry(0, start, ev.fitness, ev.is_valid)>>
                       /\ opt_pc' = "loop"
                       /\ UNCHANGED <<result, error>>
    /\ UNCHANGED <<preVars, modeCVars, minVars, runVars, optArgs, qryVars>>

\* One iteration of "while iteration < max_iterations": the neighbours, their
\* evaluation, the move or the break
OptIterate ==
    /\ opt_pc = "loop"
    /\ iteration < max_iterations
    /\ iteration' = iteration + 1
    /\ LET neighbors == GenerateNeighbors(current_solution, num_tests)
       IN /\ evaluations' = evaluations + Len(neighbors)
          /\ IF \E k \in 1..Len(neighbors) : ~IndexInRange(coverage_matrix, neighbors[k])
             THEN /\ opt_pc' = "error"
                  /\ error' = "IndexError"
                  /\ UNCHANGED <<current_solution, current_fitness, current_valid,
                                 best_solution, best_fitness, improvements, history>>
             ELSE LET best == BestNeighbor(coverage_matrix, neighbors)
                  IN IF AcceptMove(best, current_fitness)
                     THEN /\ current_solution' = best.neighbor
                          /\ current_fitness' = best.fitness
                          /\ current_valid' = best.valid
                          /\ improvements' = improvements + 1
                          /\ IF FitLess(best.fitness, best_fitness)
                             THEN /\ best_solution' = best.neighbor
                                  /\ best_fitness' = best.fitness
                             ELSE UNCHANGED <<best_solution, best_fitness>>
                          /\ history' = Append(history,
                                 HistoryEntry(iteration + 1, best.neighbor,
                                              best.fitness, best.valid))
                          /\ UNCHANGED <<opt_pc, error>>
                     ELSE /\ opt_pc' = "break"
                          /\ UNCHANGED <<current_solution, current_fitness, current_valid,
                                         best_solution, best_fitness, improvements,
                                         history, error>>
    /\ UNCHANGED <<preVars, modeCVars, minVars, runVars, optArgs, qryVars, result>>

\* The result dictionary of optimize
OptResult ==
    [solution |-> Sorted(best_solution),
     solution_size |-> Len(best_solution),
     original_size |-> num_tests,
     reduction |-> num_tests - Len(best_solution),
     reduction_percentage |-> [num |-> (num_tests - Len(best_solution)) * 100,
                               den |-> num_tests],
     coverage |-> CalculateCoveragePercentage(coverage_matrix, best_solution),
     fitness |-> best_fitness,
     iterations |-> iteration,
     improvements |-> improvements,
     evaluations |-> evaluations,
     history |-> history]

\* The loop has ended (break, or iteration = max_iterations): build the result
OptReturn ==
    /\ \/ opt_pc = "break"
       \/ opt_pc = "loop" /\ iteration >= max_iterations
    /\ result' = OptResult
    /\ opt_pc' = "done"
    /\ UNCHANGED <<preVars, modeCVars, minVars, runVars, optArgs, qryVars, current_solution,
                   current_fitness, current_valid, best_solution, best_fitness,
                   iteration, improvements, evaluations, history, error>>

\* An optimizer constructed over a minimizer whose matrix is loaded, and the
\* arguments of the call of optimize
InitOpt ==
    /\ PreUnused
    /\ RunUnused
    /\ file_matrix = None
    /\ coverage_matrix \in AllMatrices
    /\ num_requirements = coverage_matrix.nr
    /\ num_tests = coverage_matrix.nc
    /\ \/ /\ initial_solution = NoneList
          /\ initial_strategy \in StrategyNames \cup {"other"}
       \/ /\ initial_solution \in {Given(l) : l \in SortedSubsets(coverage_matrix.nc)}
          /\ initial_strategy = "greedy"
    /\ max_iterations \in {0, 1, MaxIterations}
           \cup (IF coverage_matrix = ScenarioAllOnes THEN {ScenarioMaxIterations} ELSE {})
    /\ OptFresh
    /\ opt_pc = "constructed"
    /\ QryUnused

NextOpt == OptStart \/ OptIterate \/ OptReturn

\* HillClimbingOptimizer.optimize on a loaded matrix
SpecOpt == InitOpt /\ [][NextOpt]_vars

\* ------------------------------------------------- query methods
\* One call of a query method of a loaded TestSuiteMinimizer, of the optimizer
\* constructed over it or of utils; the test lists handed in are ascending lists
\* of distinct columns of the matrix.
QryReturn(op, subset, value) ==
    /\ query' = [op |-> op, subset |-> subset, value |-> value]
    /\ qry_pc' = "returned"
    /\ UNCHANGED <<preVars, modeCVars, minVars, runVars, optArgs, optVars>>

\* minimizer.check_solution_coverage(subset)
QryCheckSolutionCoverage ==
    /\ qry_pc = "ready"
    /\ \E subset \in SortedSubsets(num_tests) :
           QryReturn("check_solution_coverage", subset,
                     CheckSolutionCoverage(coverage_matrix, subset))

\* minimizer.calculate_coverage_percentage(subset)
QryCalculateCoveragePercentage ==
    /\ qry_pc = "ready"
    /\ \E subset \in SortedSubsets(num_tests) :
           QryReturn("calculate_coverage_percentage", subset,
                     CalculateCoveragePercentage(coverage_matrix, subset))

\* optimizer.generate_neighbors(subset)
QryGenerateNeighbors ==
    /\ qry_pc = "ready"
    /\ \E subset \in SortedSubsets(num_tests) :
           QryReturn("generate_neighbors", subset, GenerateNeighbors(subset, num_tests))

\* calculate_metrics(coverage_matrix, original_tests, minimized_tests)
QryCalculateMetrics ==
    /\ qry_pc = "ready"
    /\ \E original_tests, minimized_tests \in SortedSubsets(num_tests) :
           QryReturn("calculate_metrics",
                     [original_tests |-> original_tests,
                      minimized_tests |-> minimized_tests],
                     CalculateMetrics(coverage_matrix, original_tests, minimized_tests))

\* utils.calculate_coverage_percentage(coverage_matrix, subset)
QryUtilsCalculateCoveragePercentage ==
    /\ qry_pc = "ready"
    /\ \E subset \in SortedSubsets(num_tests) :
           QryReturn("utils.calculate_coverage_percentage", subset,
                     UtilsCalculateCoveragePercentage(coverage_matrix, subset))

\* utils.check_full_coverage(coverage_matrix, subset)
QryUtilsCheckFullCoverage ==
    /\ qry_pc = "ready"
    /\ \E subset \in SortedSubsets(num_tests) :
           QryReturn("utils.check_full_coverage", subset,
                     UtilsCheckFullCoverage(coverage_matrix, subset))

\* A minimizer with a loaded matrix and the optimizer constructed over it
InitQry ==
    /\ PreUnused
    /\ RunUnused
    /\ file_matrix = None
    /\ coverage_matrix \in AllMatrices
    /\ num_requirements = coverage_matrix.nr
    /\ num_tests = coverage_matrix.nc
    /\ OptNotStarted
    /\ opt_pc = "unused"
    /\ query = NoneResult
    /\ qry_pc = "ready"

NextQry ==
    \/ QryCheckSolutionCoverage \/ QryCalculateCoveragePercentage
    \/ QryGenerateNeighbors \/ QryCalculateMetrics
    \/ QryUtilsCalculateCoveragePercentage \/ QryUtilsCheckFullCoverage

\* The query methods called on a loaded matrix
SpecQry == InitQry /\ [][NextQry]_vars

\* --------------------------- HillClimbingOptimizer.evaluate_solution, called
\* A matrix of 100 requirements and 102 tests: test 0 covers the requirements
\* 0..98, test 1 covers requirement 99, every other test covers requirement 0
ScenarioWide ==
    [nr |-> 100, nc |-> 102,
     m |-> [r \in 0..99 |-> [t \in 0..101 |->
               IF t = 0 THEN (IF r < 99 THEN 1 ELSE 0)
               ELSE IF t = 1 THEN (IF r = 99 THEN 1 ELSE 0)
               ELSE (IF r = 0 THEN 1 ELSE 0)]]]

\* The solutions handed to evaluate_solution: every ascending list of distinct
\* columns, and on the wide matrix test 0 alone, tests 0 and 1, and all tests
EvalSolutions(M) ==
    IF M = ScenarioWide THEN {<<0>>, <<0, 1>>, Range(M.nc)}
    ELSE SortedSubsets(M.nc)

\* optimizer.evaluate_solution(first) and optimizer.evaluate_solution(second)
QryEvaluateSolution ==
    /\ qry_pc = "ready"
    /\ \E first, second \in EvalSolutions(coverage_matrix) :
           QryReturn("evaluate_solution",
                     [first |-> first, second |-> second],
                     [first |-> EvaluateSolution(coverage_matrix, first),
                      second |-> EvaluateSolution(coverage_matrix, second)])

\* A minimizer with a loaded matrix, small or wide, and its optimizer
InitEval ==
    /\ PreUnused
    /\ RunUnused
    /\ file_matrix = None
    /\ coverage_matrix \in AllMatrices \cup {ScenarioWide}
    /\ num_requirements = coverage_matrix.nr
    /\ num_tests = coverage_matrix.nc
    /\ OptNotStarted
    /\ opt_pc = "unused"
    /\ query = NoneResult
    /\ qry_pc = "ready"

NextEval == QryEvaluateSolution

\* Two solutions evaluated on a loaded matrix
SpecEval == InitEval /\ [][NextEval]_vars

\* ------------------------------------------------- TestSuiteMinimizer.run
ModeNames == {"A", "B", "C", "X"}

\* load_matrix: the file has one row per test; the matrix is transposed
RunLoad ==
    /\ run_pc = "start"
    /\ coverage_matrix' = Transpose(file_matrix)
    /\ num_requirements' = file_matrix.nc
    /\ num_tests' = file_matrix.nr
    /\ run_pc' = "loaded"
    /\ UNCHANGED <<preVars, modeCVars, file_matrix, mode, apply_preprocessing,
                   preprocessing_result, run_result, optArgs, qryVars, optVars>>

\* The match statement on mode: no case for a mode other than A, B and C
RunMatchMode(M, m) ==
    IF m \in {"A", "B", "C"} THEN ApplyPreprocessingToMinimizer(M, m) ELSE NoneResult

\* run with apply_preprocessing: the preprocessing and the construction of the
\* optimizer (num_requirements and num_tests are not assigned on this path)
RunPreprocess ==
    /\ run_pc = "loaded"
    /\ apply_preprocessing
    /\ LET r == RunMatchMode(coverage_matrix, mode)
       IN /\ preprocessing_result' = r
          /\ coverage_matrix' = IF r # NoneResult THEN r.reduced_matrix ELSE coverage_matrix
    /\ run_pc' = "optimize"
    /\ opt_pc' = "constructed"
    /\ UNCHANGED <<preVars, modeCVars, file_matrix, num_requirements, num_tests, mode,
                   apply_preprocessing, run_result, optArgs, qryVars, current_solution,
                   current_fitness, current_valid, best_solution, best_fitness,
                   iteration, improvements, evaluations, history, result, error>>

\* run without preprocessing: the dimensions are read from the matrix again
RunNoPreprocessing ==
    /\ run_pc = "loaded"
    /\ ~apply_preprocessing
    /\ num_requirements' = coverage_matrix.nr
    /\ num_tests' = coverage_matrix.nc
    /\ run_pc' = "optimize"
    /\ opt_pc' = "constructed"
    /\ UNCHANGED <<preVars, modeCVars, file_matrix, coverage_matrix, mode,
                   apply_preprocessing, preprocessing_result, run_result, optArgs, qryVars,
                   current_solution, current_fitness, current_valid, best_solution,
                   best_fitness, iteration, improvements, evaluations, history,
                   result, error>>

\* optimize has returned: run returns the two results
RunReturn ==
    /\ run_pc = "optimize"
    /\ opt_pc = "done"
    /\ run_result' = [preprocessing |-> preprocessing_result, optimization |-> result]
    /\ run_pc' = "done"
    /\ UNCHANGED <<preVars, modeCVars, minVars, mode, apply_preprocessing,
                   preprocessing_result, optArgs, qryVars, optVars>>

\* optimize has raised: the exception leaves run
RunRaise ==
    /\ run_pc = "optimize"
    /\ opt_pc = "error"
    /\ run_pc' = "error"
    /\ UNCHANGED <<preVars, modeCVars, minVars, mode, apply_preprocessing,
                   preprocessing_result, run_result, optArgs, qryVars, optVars>>

\* A minimizer constructed for a matrix file and the arguments of run
InitRun ==
    /\ PreUnused
    /\ file_matrix \in AllMatrices
    /\ MinimizerEmpty
    /\ initial_strategy \in StrategyNames
    /\ initial_solution = NoneList
    /\ max_iterations = MaxIterations
    /\ \/ apply_preprocessing = TRUE /\ mode \in ModeNames
       \/ apply_preprocessing = FALSE /\ mode = "A"
    /\ preprocessing_result = NoneResult
    /\ run_pc = "start"
    /\ run_result = NoneResult
    /\ OptFresh
    /\ opt_pc = "none"
    /\ QryUnused

NextRun ==
    \/ RunLoad \/ RunPreprocess \/ RunNoPreprocessing
    \/ OptStart \/ OptIterate \/ OptReturn
    \/ RunReturn \/ RunRaise

\* TestSuiteMinimizer.run from the matrix file to the returned dictionary
SpecRun == InitRun /\ [][NextRun]_vars

\* =================================================================== claims
CallsOf(op) == {k \in 1..Len(calls) : calls[k].op = op}

\* The tests of matrix M that a mode A result c does not keep or reports removed
EliminatedTests(c) ==
    ((0..(c.arg.nr - 1)) \ SeqToSet(c.kept_test_indices))
        \cup SeqToSet(c.info.empty) \cup SeqToSet(c.info.duplicate)
        \cup SeqToSet(c.info.dominated)

HasNonEmptyTest(M) == \E t \in 0..(M.nr - 1) : RowSum(M, t) > 0

\* C3: after _apply_mode_a on a matrix with at least one non-empty test, every
\* eliminated test (empty, duplicate or dominated) has a surviving test whose
\* covered requirements include its own, and no two surviving tests have equal
\* coverage vectors.
C3_ModeADominanceSound ==
    \A k \in CallsOf("A") :
        LET c == calls[k] IN
        HasNonEmptyTest(c.arg) =>
            /\ \A e \in EliminatedTests(c) :
                   \E t \in SeqToSet(c.kept_test_indices) :
                       /\ t \notin EliminatedTests(c)
                       /\ RowOnes(c.arg, e) \subseteq RowOnes(c.arg, t)
            /\ \A p, q \in 1..Len(c.kept_test_indices) :
                   p # q => ~ArrayEqual(c.arg, c.kept_test_indices[p], c.kept_test_indices[q])
            /\ \A p, q \in 0..(c.reduced_matrix.nr - 1) :
                   p # q => c.reduced_matrix.m[p] # c.reduced_matrix.m[q]

\* A mode A call that removed an empty, a duplicate and a dominated test
C3_Witness ==
    \E k \in CallsOf("A") :
        /\ HasNonEmptyTest(calls[k].arg)
        /\ calls[k].info.empty # <<>>
        /\ calls[k].info.duplicate # <<>>
        /\ calls[k].info.dominated # <<>>

\* The requirements of c.arg covered by the tests of S
CoveredBy(M, S) == {r \in 0..(M.nc - 1) : \E t \in S : M.m[t][r] = 1}

\* C4: every test subset that covers all requirements surviving _apply_mode_b
\* covers every requirement of the input matrix that some test covers.
C4_ModeBRemovedAreRedundant ==
    \A k \in CallsOf("B") :
        LET c == calls[k] IN
        \A S \in SUBSET (0..(c.arg.nr - 1)) :
            SeqToSet(c.kept_req_indices) \subseteq CoveredBy(c.arg, S)
                => CoveredBy(c.arg, 0..(c.arg.nr - 1)) \subseteq CoveredBy(c.arg, S)

\* C5: after _apply_mode_b no surviving requirement's covering-test set is a
\* strict subset of another surviving requirement's, chains of removals included.
C5_ModeBDominanceSound ==
    \A k \in CallsOf("B") :
        LET c == calls[k] IN
        \A r, s \in SeqToSet(c.kept_req_indices) :
            ~(/\ ColOnes(c.arg, r) \subseteq ColOnes(c.arg, s)
              /\ ColOnes(c.arg, r) # ColOnes(c.arg, s))

\* A mode B call with a chain: a requirement removed one and was removed itself
C5_Witness ==
    \E k \in CallsOf("B") :
        LET c == calls[k] IN
        /\ Len(c.kept_req_indices) >= 1
        /\ \E p, q \in 1..Len(c.info.dominated) :
               /\ p < q
               /\ ColOnes(c.arg, c.info.dominated[p]) \subseteq ColOnes(c.arg, c.info.dominated[q])
               /\ ColOnes(c.arg, c.info.dominated[p]) # ColOnes(c.arg, c.info.dominated[q])

\* C6: mode A and then mode B on the matrix returned by _apply_mode_c (default
\* cap) report zero eliminations and return the same matrix.
C6_ModeCFixpoint ==
    (/\ Len(calls) >= 3
     /\ calls[1].op = "C" /\ calls[1].max_iterations = DefaultModeCMaxIterations
     /\ calls[2].op = "A" /\ calls[3].op = "B")
        => /\ calls[2].info.total_eliminated = 0
           /\ calls[3].info.total_eliminated = 0
           /\ calls[2].reduced_matrix = calls[1].reduced_matrix
           /\ calls[3].reduced_matrix = calls[1].reduced_matrix

\* C7: mode A on the output of mode A eliminates nothing and keeps every index,
\* and so does mode B on the output of mode B.
C7_ModesIdempotent ==
    \A k \in 1..(Len(calls) - 1) :
        /\ (calls[k].op = "A" /\ calls[k + 1].op = "A")
               => /\ calls[k + 1].info.total_eliminated = 0
                  /\ calls[k + 1].kept_test_indices = Range(calls[k].reduced_matrix.nr)
        /\ (calls[k].op = "B" /\ calls[k + 1].op = "B")
               => /\ calls[k + 1].info.total_eliminated = 0
                  /\ calls[k + 1].kept_req_indices = Range(calls[k].reduced_matrix.nc)

\* C8 as stated: on the scenario matrix mode A removes test 1 as a duplicate and
\* test 0 as dominated, and keeps test 2 alone.
C8_ScenarioOnlyTest2Kept ==
    \A k \in CallsOf("A") :
        calls[k].arg = ScenarioMatrix
            => /\ calls[k].info.duplicate = <<1>>
               /\ calls[k].info.dominated = <<0>>
               /\ calls[k].kept_test_indices = <<2>>
               /\ calls[k].reduced_matrix.nr = 1

\* C8 (amended): on the scenario matrix mode A removes test 1 as a duplicate of
\* test 0 and nothing else: test 0 is not removed by the later test 2, the kept
\* tests are 0 and 2 and the reduced matrix has exactly two tests.
C8_ScenarioTests0And2Kept ==
    \A k \in CallsOf("A") :
        calls[k].arg = ScenarioMatrix
            => /\ calls[k].info.empty = <<>>
               /\ calls[k].info.duplicate = <<1>>
               /\ calls[k].info.dominated = <<>>
               /\ calls[k].kept_test_indices = <<0, 2>>
               /\ calls[k].reduced_matrix = TakeRows(ScenarioMatrix, <<0, 2>>)
               /\ calls[k].reduced_matrix.nr = 2

\* Mode A has returned on the scenario matrix
C8_Witness ==
    \E k \in CallsOf("A") : /\ calls[k].arg = ScenarioMatrix
                            /\ calls[k].info.total_eliminated = 1


OptStarted == opt_pc \in {"loop", "break", "done"}

FullCoverage(M, solution) ==
    /\ CheckSolutionCoverage(M, solution)
    /\ PctEq(CalculateCoveragePercentage(M, solution), Pct(100))

\* C1: whenever optimize replaces the current solution, the new current
\* solution satisfies check_solution_coverage (coverage 100%); a run that
\* starts at 100% coverage never holds a current or best solution below 100%.
C1_AcceptedMovesPreserveCoverage ==
    /\ [][(opt_pc = "loop" /\ current_solution' # current_solution)
              => /\ FullCoverage(coverage_matrix', current_solution')
                 /\ current_valid']_vars
    /\ []((OptStarted /\ history[1].valid)
              => /\ FullCoverage(coverage_matrix, current_solution)
                 /\ FullCoverage(coverage_matrix, best_solution))

\* Two moves were accepted in a run that started at full coverage
C1_Witness ==
    /\ OptStarted
    /\ history[1].valid
    /\ improvements >= 2
    /\ Len(current_solution) = history[1].solution_size - 2

\* C2: for each of the strategies 'all', 'greedy' and 'essential' the solution
\* returned by optimize (a run that the iteration cap did not cut short) covers
\* every requirement the full test set covers: result coverage is 100%.
C2_ResultPreservesCoverage ==
    (/\ opt_pc = "done"
     /\ initial_solution = NoneList
     /\ initial_strategy \in KnownStrategies
     /\ result.iterations < max_iterations)
        => /\ CheckSolutionCoverage(coverage_matrix, result.solution)
           /\ PctEq(result.coverage, Pct(100))

\* C9: with preprocessing enabled and a mode other than 'A', 'B' and 'C', run
\* ends in an error and hill climbing is not executed.
C9_UnknownModeFailsFast ==
    (/\ run_pc # "unused"
     /\ apply_preprocessing
     /\ mode \notin {"A", "B", "C"})
        => /\ ~OptStarted
           /\ run_pc # "done"

\* C10: generate_initial_solution accepts each of the names 'all', 'greedy',
\* 'essential' and 'random' and optimize goes on to a result; only other names
\* are rejected as unknown strategies.
C10_InterfaceStrategiesAccepted ==
    /\ (opt_pc = "error" /\ error = "ValueError") => initial_strategy \notin StrategyNames
    /\ (/\ opt_pc \notin {"unused", "none", "constructed"}
        /\ initial_solution = NoneList
        /\ initial_strategy \in StrategyNames) => OptStarted

\* The requirements (rows of the requirements x tests matrix M) that at least
\* one test of the set S covers
ReqsCoveredBy(M, S) == {r \in 0..(M.nr - 1) : \E t \in S : M.m[r][t] = 1}

AllTests(M) == 0..(M.nc - 1)

QueryIs(op) == qry_pc = "returned" /\ query.op = op

\* C11 as stated: check_solution_coverage(subset) is true exactly when the
\* requirements covered by subset include the requirements covered by the
\* whole matrix, the empty subset included.
C11_CheckIffSuperset ==
    QueryIs("check_solution_coverage")
        => (query.value <=>
                ReqsCoveredBy(coverage_matrix, AllTests(coverage_matrix))
                    \subseteq ReqsCoveredBy(coverage_matrix, SeqToSet(query.subset)))

\* C11 (amended): check_solution_coverage(subset) is true exactly when subset
\* is not empty and the requirements covered by subset include the
\* requirements covered by the whole matrix; it is false for the empty subset.
C11_CheckIffNonEmptySuperset ==
    QueryIs("check_solution_coverage")
        => (query.value <=>
                /\ query.subset # <<>>
                /\ ReqsCoveredBy(coverage_matrix, AllTests(coverage_matrix))
                       \subseteq ReqsCoveredBy(coverage_matrix, SeqToSet(query.subset)))

\* check_solution_coverage returned true for a proper subset of the tests of a
\* matrix that has a requirement no test covers
C11_Witness ==
    /\ QueryIs("check_solution_coverage")
    /\ query.value
    /\ Len(query.subset) < num_tests
    /\ ReqsCoveredBy(coverage_matrix, AllTests(coverage_matrix)) # {}
    /\ ReqsCoveredBy(coverage_matrix, AllTests(coverage_matrix))
           # 0..(coverage_matrix.nr - 1)

\* The tests that are the only test covering some requirement of M
UniqueCoverers(M) ==
    {t \in AllTests(M) :
        \E r \in 0..(M.nr - 1) : \A u \in AllTests(M) : M.m[r][u] = 1 <=> u = t}

\* C12: a test that alone covers some requirement is in the initial solution
\* of the 'essential' strategy; a solution without it is never evaluated as
\* coverage-preserving; and the result of optimize started from a
\* coverage-preserving solution contains it.
C12_UniqueCovererAlwaysKept ==
    /\ [][(/\ opt_pc = "constructed" /\ opt_pc' = "loop"
           /\ initial_solution = NoneList /\ initial_strategy = "essential")
              => UniqueCoverers(coverage_matrix) \subseteq SeqToSet(current_solution')]_vars
    /\ []((OptStarted /\ current_valid)
              => UniqueCoverers(coverage_matrix) \subseteq SeqToSet(current_solution))
    /\ []((opt_pc = "done" /\ history[1].valid)
              => UniqueCoverers(coverage_matrix) \subseteq SeqToSet(result.solution))

\* optimize started from a coverage-preserving solution, removed tests and
\* returned, on a matrix with two tests that each alone cover a requirement
C12_Witness ==
    /\ opt_pc = "done"
    /\ history[1].valid
    /\ improvements >= 1
    /\ Cardinality(UniqueCoverers(coverage_matrix)) >= 2
    /\ UniqueCoverers(coverage_matrix) \subseteq SeqToSet(result.solution)

\* C13: on the all-ones matrix with 2 requirements and 2 tests, optimize with
\* initial_strategy 'all' and max_iterations 100 returns a solution of exactly
\* one test with 100% coverage and fitness 1, reached by one accepted move.
C13_AllOnesConvergesToOneTest ==
    (/\ opt_pc = "done"
     /\ coverage_matrix = ScenarioAllOnes
     /\ initial_solution = NoneList
     /\ initial_strategy = "all"
     /\ max_iterations = ScenarioMaxIterations)
        => /\ result.solution \in {<<0>>, <<1>>}
           /\ result.solution_size = 1
           /\ PctEq(result.coverage, Pct(100))
           /\ result.fitness = Fit(1, 1)
           /\ result.improvements = 1
           /\ Len(result.history) = 2
           /\ result.history[1].solution_size = 2
           /\ result.history[2].solution_size = 1

\* optimize has returned on the call of the scenario
C13_Witness ==
    /\ opt_pc = "done"
    /\ coverage_matrix = ScenarioAllOnes
    /\ initial_solution = NoneList
    /\ initial_strategy = "all"
    /\ max_iterations = ScenarioMaxIterations
    /\ result.iterations = 2

\* The lists of ls are pairwise disjoint, without repetitions, and hold no
\* element of kept
ExactRemovedLists(ls, kept) ==
    /\ \A p, q \in 1..Len(ls) : p # q => SeqToSet(ls[p]) \cap SeqToSet(ls[q]) = {}
    /\ \A p \in 1..Len(ls) :
           /\ Cardinality(SeqToSet(ls[p])) = Len(ls[p])
           /\ SeqToSet(ls[p]) \cap SeqToSet(kept) = {}

\* C14: in every mode A and mode B report the removed-index lists are pairwise
\* disjoint and contain no kept index, and remaining + total_eliminated is the
\* original count; in every mode C report total_tests_eliminated is original
\* rows minus final rows and total_reqs_eliminated is original columns minus
\* final columns. All-empty inputs, where the fallback keeps one survivor,
\* are included.
C14_EliminationAccountingExact ==
    \A k \in 1..Len(calls) :
        LET c == calls[k] IN
        /\ c.op = "A" =>
               /\ ExactRemovedLists(<<c.info.empty, c.info.duplicate, c.info.dominated>>,
                                     c.kept_test_indices)
               /\ c.info.remaining_tests + c.info.total_eliminated = c.info.original_tests
               /\ c.info.original_tests = c.arg.nr
               /\ c.info.remaining_tests = c.reduced_matrix.nr
        /\ c.op = "B" =>
               /\ ExactRemovedLists(<<c.info.uncovered, c.info.dominated>>,
                                     c.kept_req_indices)
               /\ c.info.remaining_requirements + c.info.total_eliminated
                      = c.info.original_requirements
               /\ c.info.original_requirements = c.arg.nc
               /\ c.info.remaining_requirements = c.reduced_matrix.nc
        /\ c.op = "C" =>
               /\ c.info.total_tests_eliminated = c.arg.nr - c.reduced_matrix.nr
               /\ c.info.total_reqs_eliminated = c.arg.nc - c.reduced_matrix.nc

\* 0 <= v <= 1
InUnitInterval(v) == FracLeq(Frac(0, 1), v) /\ FracLeq(v, Frac(1, 1))

IsZero(v) == v.num = 0

\* The call calculate_metrics(matrix, original, minimized) with a non-empty
\* original set that covers a requirement and a non-empty minimized set
NonDegenerateMetricsQuery ==
    /\ QueryIs("calculate_metrics")
    /\ query.subset.original_tests # <<>>
    /\ query.subset.minimized_tests # <<>>
    /\ ReqsCoveredBy(coverage_matrix, SeqToSet(query.subset.original_tests)) # {}

\* C15 as stated: for every non-empty original test set that covers a
\* requirement and every non-empty minimized test set, TSSR and FDCLOSS lie in
\* [0,1], and both are 0 when the two sets are equal.
C15_MetricsInUnitInterval ==
    NonDegenerateMetricsQuery
        => /\ InUnitInterval(query.value.tssr)
           /\ InUnitInterval(query.value.fdcloss)
           /\ query.subset.minimized_tests = query.subset.original_tests
                  => IsZero(query.value.tssr) /\ IsZero(query.value.fdcloss)

\* C15 (amended): the same for every non-empty minimized test set that is a
\* subset of the original test set.
C15_MetricsInUnitIntervalForSubsets ==
    (/\ NonDegenerateMetricsQuery
     /\ SeqToSet(query.subset.minimized_tests) \subseteq SeqToSet(query.subset.original_tests))
        => /\ InUnitInterval(query.value.tssr)
           /\ InUnitInterval(query.value.fdcloss)
           /\ query.subset.minimized_tests = query.subset.original_tests
                  => IsZero(query.value.tssr) /\ IsZero(query.value.fdcloss)

\* The metrics of a minimized set that is a proper subset of the original set
\* and loses some but not all of its coverage
C15_Witness ==
    /\ NonDegenerateMetricsQuery
    /\ SeqToSet(query.subset.minimized_tests) \subseteq SeqToSet(query.subset.original_tests)
    /\ ~IsZero(query.value.tssr)
    /\ ~IsZero(query.value.fdcloss)
    /\ ~FracLeq(Frac(1, 1), query.value.fdcloss)

\* The part of C16 that does not depend on the subset being empty: the value
\* lies in [0,100], it is 100 * |covered by subset| / |covered by the matrix|
\* when the matrix covers a requirement, and it is 0.0 for the empty subset.
CoveragePercentageAsDefined ==
    LET all == ReqsCoveredBy(coverage_matrix, AllTests(coverage_matrix))
        sub == ReqsCoveredBy(coverage_matrix, SeqToSet(query.subset))
    IN /\ query.value.den > 0
       /\ FracLeq(Pct(0), query.value) /\ FracLeq(query.value, Pct(100))
       /\ all # {} => PctEq(query.value, Frac(100 * Cardinality(sub), Cardinality(all)))
       /\ query.subset = <<>> => PctEq(query.value, Pct(0))

\* C16 as stated: calculate_coverage_percentage(subset) lies in [0,100] and is
\* 100 * |covered by subset| / |covered by the matrix|; it is 100.0 for every
\* subset when no test covers any requirement, and 0.0 for the empty subset.
C16_CoveragePercentage ==
    QueryIs("calculate_coverage_percentage")
        => /\ CoveragePercentageAsDefined
           /\ ReqsCoveredBy(coverage_matrix, AllTests(coverage_matrix)) = {}
                  => PctEq(query.value, Pct(100))

\* C16 (amended): as stated, but 100.0 on a matrix without covered
\* requirements for every non-empty subset only; the empty subset gives 0.0 on
\* every matrix.
C16_CoveragePercentageNonEmpty ==
    QueryIs("calculate_coverage_percentage")
        => /\ CoveragePercentageAsDefined
           /\ (/\ ReqsCoveredBy(coverage_matrix, AllTests(coverage_matrix)) = {}
               /\ query.subset # <<>>)
                  => PctEq(query.value, Pct(100))

\* A percentage strictly between 0 and 100 on a matrix with a requirement
\* that no test covers
C16_Witness ==
    /\ QueryIs("calculate_coverage_percentage")
    /\ ~PctEq(query.value, Pct(0))
    /\ ~PctEq(query.value, Pct(100))
    /\ \E r \in 0..(coverage_matrix.nr - 1) :
           r \notin ReqsCoveredBy(coverage_matrix, AllTests(coverage_matrix))

\* A set of tests is coverage-preserving
Preserves(M, S) ==
    S # {} /\ ReqsCoveredBy(M, AllTests(M)) \subseteq ReqsCoveredBy(M, S)

\* The coverage-preserving single-flip neighbours of the list cur over n tests,
\* each with its place in the order of generation: the removal of cur[k] is
\* number k, the addition of test t is number Len(cur) + 1 + t
PreservingNeighbors(M, cur, n) ==
    {c \in {[set |-> SeqToSet(cur) \ {cur[k]}, rank |-> k] : k \in 1..Len(cur)}
            \cup {[set |-> SeqToSet(cur) \cup {t}, rank |-> Len(cur) + 1 + t] :
                     t \in (0..(n - 1)) \ SeqToSet(cur)} :
        Preserves(M, c.set)}

\* c is the first of the smallest elements of cands
FirstSmallest(c, cands) ==
    \A d \in cands :
        \/ Cardinality(c.set) < Cardinality(d.set)
        \/ Cardinality(c.set) = Cardinality(d.set) /\ c.rank <= d.rank

\* C17: in every iteration of optimize, if some coverage-preserving neighbour
\* of the current solution has fitness below the current fitness, the new
\* current solution is the coverage-preserving neighbour of lowest fitness,
\* the earliest generated among ties, and its fitness is strictly below the
\* old one; otherwise the loop stops and the current solution is unchanged.
C17_MoveToBestPreservingNeighbor ==
    [][(opt_pc = "loop" /\ iteration' = iteration + 1) =>
        LET cands == PreservingNeighbors(coverage_matrix, current_solution, num_tests)
            improving == {c \in cands :
                            FitLess(Fit(Cardinality(c.set), 1), current_fitness)}
        IN IF improving # {}
           THEN /\ opt_pc' = "loop"
                /\ \E c \in cands :
                       /\ FirstSmallest(c, cands)
                       /\ SeqToSet(current_solution') = c.set
                       /\ Len(current_solution') = Cardinality(c.set)
                       /\ current_fitness' = Fit(Cardinality(c.set), 1)
                /\ current_valid'
                /\ FitLess(current_fitness', current_fitness)
           ELSE /\ opt_pc' = "break"
                /\ current_solution' = current_solution
                /\ current_fitness' = current_fitness]_vars

\* A run from a start without full coverage that moved by an addition, then
\* by a removal, and stopped at a local optimum
C17_Witness ==
    /\ opt_pc = "break"
    /\ ~history[1].valid
    /\ Len(history) >= 3
    /\ history[2].solution_size = history[1].solution_size + 1
    /\ history[3].solution_size = history[2].solution_size - 1

IsAscending(l) == \A p, q \in 1..Len(l) : p < q => l[p] < l[q]

\* The sets that differ from the set S of tests in exactly one of the n tests
SingleFlips(S, n) ==
    {S \ {x} : x \in S} \cup {S \cup {t} : t \in (0..(n - 1)) \ S}

\* The neighbours in the list ns are ascending lists, no two of them equal, and
\* as sets they are exactly the sets of flips
NeighborsAre(ns, flips) ==
    /\ \A p \in 1..Len(ns) : IsAscending(ns[p])
    /\ \A p, q \in 1..Len(ns) : p # q => ns[p] # ns[q]
    /\ {SeqToSet(ns[p]) : p \in 1..Len(ns)} = flips

\* C18 as stated: for a solution of k distinct tests over n tests,
\* generate_neighbors returns the k remove-one subsets (the empty subset when
\* k = 1 included) and the n - k add-one subsets, each sorted ascending:
\* exactly n neighbours, each differing from the solution in exactly one test.
C18_FullSingleFlipNeighborhood ==
    QueryIs("generate_neighbors")
        => /\ Len(query.value) = num_tests
           /\ NeighborsAre(query.value, SingleFlips(SeqToSet(query.subset), num_tests))

\* C18 (amended): generate_neighbors returns the remove-one subsets that are
\* not empty and the n - k add-one subsets, each sorted ascending: n
\* neighbours for k # 1 and n - 1 neighbours for k = 1, where the removal that
\* would leave the empty subset is not proposed.
C18_SingleFlipNeighborhoodWithoutEmpty ==
    QueryIs("generate_neighbors")
        => /\ Len(query.value)
                  = IF Len(query.subset) = 1 THEN num_tests - 1 ELSE num_tests
           /\ NeighborsAre(query.value,
                           SingleFlips(SeqToSet(query.subset), num_tests) \ {{}})

\* generate_neighbors has returned for a solution of one test out of three or
\* more
C18_Witness ==
    /\ QueryIs("generate_neighbors")
    /\ Len(query.subset) = 1
    /\ num_tests >= 3
    /\ Len(query.value) = num_tests - 1

\* The coverage-preserving neighbours of the current solution whose fitness is
\* below the current fitness
ImprovingNeighbors ==
    {c \in PreservingNeighbors(coverage_matrix, current_solution, num_tests) :
        FitLess(Fit(Cardinality(c.set), 1), current_fitness)}

\* The solution optimize starts from
StartSolution ==
    IF initial_solution = NoneList
    THEN GenerateInitialSolution(coverage_matrix, num_requirements, num_tests,
                                 initial_strategy)
    ELSE initial_solution.value

\* The steps optimize still has to take at most
OptStepsLeft ==
    CASE opt_pc = "constructed" -> max_iterations + 3
      [] opt_pc = "loop" -> (max_iterations - iteration) + 2
      [] opt_pc = "break" -> 1
      [] OTHER -> 0

\* C19: optimize terminates for every matrix, initial solution and
\* max_iterations >= 0: every step it takes lowers a bound on the steps left,
\* which is never negative. The loop goes on
\* only through improving moves and only while the counter is below
\* max_iterations, it ends at the first iteration without an improving
\* coverage-preserving neighbour, the reported iterations never exceed
\* max_iterations, and with max_iterations = 0 the initial solution is
\* returned unchanged.
C19_OptimizeTerminates ==
    /\ [][OptStepsLeft' < OptStepsLeft]_<<opt_pc, iteration>>
    /\ [](OptStepsLeft >= 0)
    /\ [](opt_pc \in {"loop", "break"}
              => /\ iteration <= max_iterations
                 /\ Len(history) = improvements + 1
                 /\ \A k \in 1..improvements :
                        FitLess(history[k + 1].fitness, history[k].fitness))
    /\ [](opt_pc = "loop" => iteration = improvements)
    /\ [](opt_pc = "break" => iteration = improvements + 1 /\ ImprovingNeighbors = {})
    /\ [](opt_pc = "done"
              => /\ result.iterations <= max_iterations
                 /\ \/ result.iterations = result.improvements + 1
                          /\ ImprovingNeighbors = {}
                    \/ result.iterations = max_iterations
                          /\ result.improvements = max_iterations
                 /\ max_iterations = 0
                        => /\ result.iterations = 0
                           /\ result.improvements = 0
                           /\ SeqToSet(result.solution) = SeqToSet(StartSolution)
                           /\ result.solution_size = Len(StartSolution)
                           /\ initial_solution # NoneList
                                  => result.solution = initial_solution.value)

\* optimize returned after the iteration counter reached max_iterations while
\* an improving neighbour was still there
C19_Witness ==
    /\ opt_pc = "done"
    /\ max_iterations >= 1
    /\ result.iterations = max_iterations
    /\ result.improvements = max_iterations
    /\ ImprovingNeighbors # {}

\* C20: whatever max_iterations is, the loop of optimize performs at most
\* num_tests + 1 iterations: every accepted move strictly lowers the fitness,
\* the fitness of a coverage-preserving solution is an integer between 1 and
\* num_tests, and a run with max_iterations > num_tests ends at a local
\* optimum (an iteration without an improving coverage-preserving neighbour).
C20_AtMostNumTestsPlusOneIterations ==
    /\ OptStarted
           => /\ iteration <= num_tests + 1
              /\ improvements <= num_tests
              /\ \A k \in 1..(Len(history) - 1) :
                     FitLess(history[k + 1].fitness, history[k].fitness)
              /\ current_valid
                     => \E n \in 1..num_tests : current_fitness = Fit(n, 1)
    /\ (opt_pc = "done" /\ max_iterations > num_tests)
           => /\ result.iterations = result.improvements + 1
              /\ ImprovingNeighbors = {}

\* A run of num_tests + 1 iterations, with max_iterations above that
C20_Witness ==
    /\ opt_pc = "done"
    /\ num_tests >= 3
    /\ max_iterations > num_tests + 1
    /\ result.iterations = num_tests + 1

\* C21: from the initial evaluation on, after every loop iteration and at
\* return, best_solution and best_fitness equal current_solution and
\* current_fitness, also for an empty or coverage-losing initial solution; the
\* result reports them.
C21_BestEqualsCurrent ==
    /\ OptStarted => /\ best_solution = current_solution
                     /\ best_fitness = current_fitness
    /\ opt_pc = "done" => /\ result.solution = Sorted(current_solution)
                          /\ result.fitness = current_fitness
                          /\ result.solution_size = Len(current_solution)

\* optimize returned after two moves from a start that loses coverage
C21_Witness ==
    /\ opt_pc = "done"
    /\ ~history[1].valid
    /\ history[1].solution_size >= 1
    /\ improvements >= 2
    /\ best_solution = current_solution

\* optimize left its loop because no neighbour improved, not because of the cap:
\* every iteration but the last one made a move
StoppedAtLocalOptimum ==
    opt_pc \in {"break", "done"} /\ iteration = improvements + 1

\* S preserves coverage and no single test can be removed from it
Irredundant(M, S) ==
    /\ Preserves(M, S)
    /\ \A t \in S : ~Preserves(M, S \ {t})

\* C22: when optimize starts from a coverage-preserving solution and stops
\* because no neighbour improves, the solution it holds and returns preserves
\* coverage and loses it with the removal of any single test.
C22_LocalOptimumIrredundant ==
    (StoppedAtLocalOptimum /\ history[1].valid) =>
        /\ Irredundant(coverage_matrix, SeqToSet(best_solution))
        /\ opt_pc = "done" =>
              Irredundant(coverage_matrix, SeqToSet(result.solution))

\* optimize returned an irredundant solution of two tests or more from a
\* preserving start although a smaller preserving subset exists
C22_Witness ==
    /\ opt_pc = "done"
    /\ StoppedAtLocalOptimum
    /\ history[1].valid
    /\ improvements >= 1
    /\ Irredundant(coverage_matrix, SeqToSet(result.solution))
    /\ \E S \in SUBSET AllTests(coverage_matrix) :
          /\ Preserves(coverage_matrix, S)
          /\ Cardinality(S) < result.solution_size

\* Test i covers every requirement that test j covers (rows are tests)
RowCovers(M, i, j) == \A c \in 0..(M.nc - 1) : M.m[j][c] <= M.m[i][c]

\* C23: in _apply_mode_a a non-empty test j is removed exactly when a surviving
\* non-empty test of smaller index covers all that j covers (as a duplicate when
\* the rows are equal, as dominated otherwise), never because of a later test;
\* the first non-empty test always survives.
C23_ModeAForwardOnly ==
    \A k \in CallsOf("A") :
        LET c == calls[k]
            M == c.arg
            ne == SeqToSet(NonEmptyTests(M))
            kept == SeqToSet(c.kept_test_indices)
            Earlier(j) == {i \in ne \cap kept : i < j}
        IN ne # {} =>
             /\ kept \subseteq ne
             /\ \A j \in ne :
                   /\ InSeq(j, c.info.duplicate)
                        <=> \E i \in Earlier(j) : ArrayEqual(M, i, j)
                   /\ InSeq(j, c.info.dominated)
                        <=> /\ \E i \in Earlier(j) : DominatesTest(M, i, j)
                            /\ ~\E i \in Earlier(j) : ArrayEqual(M, i, j)
                   /\ j \notin kept
                        <=> \E i \in Earlier(j) : RowCovers(M, i, j)
             /\ \A j \in ne : (\A i \in ne : j <= i) => j \in kept

\* Mode A returned with a surviving test that a later surviving test strictly
\* dominates, and with a test removed because of an earlier survivor
C23_Witness ==
    \E k \in CallsOf("A") :
        LET c == calls[k]
            kept == SeqToSet(c.kept_test_indices)
        IN /\ \E i \in kept : \E j \in kept :
                 i < j /\ DominatesTest(c.arg, j, i)
           /\ c.info.dominated # <<>>

\* The pass recorded in d removed at least one row or column
PassShrank(d) ==
    /\ d.end_shape[1] <= d.start_shape[1]
    /\ d.end_shape[2] <= d.start_shape[2]
    /\ d.end_shape # d.start_shape

\* C24: _apply_mode_c stops right after the first pass that removes no row and
\* no column, or after max_iterations passes: 'iterations' is at most
\* max_iterations and counts the recorded passes, every pass but the last one
\* shrank the matrix, and when 'iterations' is below max_iterations the last
\* pass left the shape unchanged.
C24_ModeCStopRule ==
    /\ pre_pc = "modeC_loop" =>
          /\ mc_iteration <= mc_max_iterations
          /\ \A p \in 1..Len(iteration_details) : PassShrank(iteration_details[p])
    /\ \A k \in CallsOf("C") :
          LET c == calls[k]
              d == c.info.iteration_details
          IN /\ c.info.iterations <= c.max_iterations
             /\ Len(d) = c.info.iterations
             /\ \A p \in 1..(Len(d) - 1) : PassShrank(d[p])
             /\ c.info.iterations < c.max_iterations =>
                   /\ Len(d) >= 1
                   /\ d[Len(d)].end_shape = d[Len(d)].start_shape

\* The lists oti and ori say where in matrix M each row and column of cm was
Provenance(M, cm, oti, ori) ==
    /\ Len(oti) = cm.nr
    /\ Len(ori) = cm.nc
    /\ IsAscending(oti)
    /\ IsAscending(ori)
    /\ \A k \in 1..Len(oti) : oti[k] \in 0..(M.nr - 1)
    /\ \A l \in 1..Len(ori) : ori[l] \in 0..(M.nc - 1)
    /\ \A k \in 0..(cm.nr - 1) : \A l \in 0..(cm.nc - 1) :
          cm.m[k][l] = M.m[oti[k + 1]][ori[l + 1]]

\* C25: before and after every pass of _apply_mode_c and in its result, the
\* original-index lists are as long as the current matrix has rows and
\* columns, strictly increasing, and entry (k, l) of the current matrix is
\* entry (original_test_indices[k], original_req_indices[l]) of the input.
C25_ModeCIndexProvenance ==
    /\ pre_pc \in {"modeC_loop", "modeC_break"} =>
          Provenance(input, current_matrix, original_test_indices,
                     original_req_indices)
    /\ \A k \in CallsOf("C") :
          Provenance(calls[k].arg, calls[k].reduced_matrix,
                     calls[k].kept_test_indices, calls[k].kept_req_indices)

\* Mode C returned after two passes that both removed tests, with kept tests
\* that are not the first rows of the input
C25_Witness ==
    \E k \in CallsOf("C") :
        LET c == calls[k]
            d == c.info.iteration_details
        IN /\ Len(d) >= 2
           /\ d[1].tests_eliminated > 0
           /\ d[2].tests_eliminated > 0
           /\ d[2].end_shape[1] < d[2].start_shape[1]
           /\ c.kept_test_indices # Range(Len(c.kept_test_indices))
           /\ c.kept_req_indices # Range(Len(c.kept_req_indices))

\* The list l holds distinct test indices of the columns of matrix M
UniqueColumnIndices(M, l) ==
    /\ \A p \in 1..Len(l) : l[p] \in 0..(M.nc - 1)
    /\ \A p, q \in 1..Len(l) : p # q => l[p] # l[q]

\* C26: in every run of TestSuiteMinimizer.run, from the construction of the
\* optimizer on, num_tests and num_requirements are the numbers of columns and
\* rows of the matrix the optimizer searches, no index error occurs, and the
\* initial solution, every generated neighbour and the returned solution hold
\* distinct indices of test columns of that matrix.
C26_OptimizerDimensionsMatchMatrix ==
    run_pc \in {"optimize", "done", "error"} =>
        /\ num_tests = coverage_matrix.nc
        /\ num_requirements = coverage_matrix.nr
        /\ ~(opt_pc = "error" /\ error = "IndexError")
        /\ OptStarted =>
              /\ UniqueColumnIndices(coverage_matrix, current_solution)
              /\ \A n \in SeqToSet(GenerateNeighbors(current_solution, num_tests)) :
                    UniqueColumnIndices(coverage_matrix, n)
        /\ opt_pc = "done" => UniqueColumnIndices(coverage_matrix, result.solution)

\* C27: on the matrix the minimizer holds after load_matrix (rows are
\* requirements, columns are tests) mode A removes test columns only and mode B
\* removes requirement rows only; kept_test_indices are column indices and
\* kept_req_indices are row indices of that matrix.
C27_ModesActOnMinimizerOrientation ==
    (run_pc \in {"optimize", "done", "error"} /\ preprocessing_result # NoneResult) =>
        LET r == preprocessing_result
            M == Transpose(file_matrix)
        IN /\ r.original_matrix = M
           /\ r.mode = "A" =>
                 /\ r.reduced_matrix.nr = M.nr
                 /\ r.kept_req_indices = Range(M.nr)
                 /\ UniqueColumnIndices(M, r.kept_test_indices)
                 /\ r.reduced_matrix = TakeCols(M, r.kept_test_indices)
           /\ r.mode = "B" =>
                 /\ r.reduced_matrix.nc = M.nc
                 /\ r.kept_test_indices = Range(M.nc)
                 /\ \A p \in 1..Len(r.kept_req_indices) :
                       r.kept_req_indices[p] \in 0..(M.nr - 1)
                 /\ r.reduced_matrix = TakeRows(M, r.kept_req_indices)

\* C28: evaluate_solution gives every non-empty solution that loses coverage a
\* strictly greater fitness than every non-empty solution that preserves
\* coverage, whatever their sizes; a preserving solution is valid with its size
\* as fitness, and the empty solution is invalid with infinite fitness.
C28_FitnessOrdering ==
    QueryIs("evaluate_solution") =>
        LET M == coverage_matrix
            a == query.subset.first
            b == query.subset.second
            va == query.value.first
            vb == query.value.second
        IN /\ a = <<>> => (va.fitness = Inf /\ ~va.is_valid)
           /\ (a # <<>> /\ ~Preserves(M, SeqToSet(a))) => ~va.is_valid
           /\ Preserves(M, SeqToSet(b)) =>
                 (vb.is_valid /\ vb.fitness = Fit(Len(b), 1))
           /\ (a # <<>> /\ ~Preserves(M, SeqToSet(a)) /\ Preserves(M, SeqToSet(b)))
                 => FitLess(vb.fitness, va.fitness)

\* The number of requirements of M that test t covers and the tests of S do not
Gain(M, S, t) == Cardinality(ReqsCoveredBy(M, {t}) \ ReqsCoveredBy(M, S))

\* The tests of sol before position p
Before(sol, p) == {sol[q] : q \in 1..(p - 1)}

\* optimize has just built its start with the greedy strategy
GreedyStart ==
    /\ opt_pc = "loop"
    /\ iteration = 0
    /\ initial_solution = NoneList
    /\ initial_strategy = "greedy"

\* C29: the greedy initial solution is built by appending, step by step, the
\* not yet selected test that covers the most requirements still uncovered,
\* the lowest index among ties, and ends when every requirement is covered or
\* no test adds coverage: no index is repeated, every selected test covered a
\* requirement that the tests before it did not, and the result preserves
\* coverage whenever some test covers some requirement.
C29_GreedyInitialSolution ==
    GreedyStart =>
        LET M == coverage_matrix
            sol == current_solution
            rest(S) == AllTests(M) \ S
        IN /\ \A p \in 1..Len(sol) :
                 LET S == Before(sol, p) IN
                 /\ sol[p] \in rest(S)
                 /\ Gain(M, S, sol[p]) >= 1
                 /\ \A t \in rest(S) :
                       /\ Gain(M, S, t) <= Gain(M, S, sol[p])
                       /\ Gain(M, S, t) = Gain(M, S, sol[p]) => sol[p] <= t
           /\ \/ ReqsCoveredBy(M, SeqToSet(sol)) = 0..(M.nr - 1)
              \/ \A t \in rest(SeqToSet(sol)) : Gain(M, SeqToSet(sol), t) = 0
           /\ ReqsCoveredBy(M, AllTests(M)) # {} =>
                 /\ Preserves(M, SeqToSet(sol))
                 /\ current_valid

\* A greedy start of two tests or more, not in index order, whose first choice
\* had a tie
C29_Witness ==
    /\ GreedyStart
    /\ Len(current_solution) >= 2
    /\ current_solution[2] < current_solution[1]
    /\ \E t \in AllTests(coverage_matrix) \ {current_solution[1]} :
          Gain(coverage_matrix, {}, t) = Gain(coverage_matrix, {}, current_solution[1])

\* C30: on every matrix and every test subset, requirements covered by no test
\* included, utils.check_full_coverage returns what
\* TestSuiteMinimizer.check_solution_coverage returns and
\* utils.calculate_coverage_percentage returns what
\* TestSuiteMinimizer.calculate_coverage_percentage returns.
C30_UtilsAgreeWithMinimizer ==
    /\ QueryIs("utils.check_full_coverage") =>
          (query.value <=> CheckSolutionCoverage(coverage_matrix, query.subset))
    /\ QueryIs("utils.calculate_coverage_percentage") =>
          PctEq(query.value,
                CalculateCoveragePercentage(coverage_matrix, query.subset))

====
